---- MODULE Spec2Model ----
(***************************************************************************)
(* Model of the shop inventory core: the Product entity                    *)
(* (models/product.py), the ProductRepository with its CSV persistence     *)
(* (repositories/product_repository.py) and the ProductService with its    *)
(* observers (services/product_service.py, services/base_service.py).      *)
(*                                                                         *)
(* Strings are sequences of one-character strings, so that int(), float(), *)
(* str() and the CSV quoting are computed character by character.          *)
(* A price (a Python float) is held as an integer number of hundredths;    *)
(* the text alphabet of the model has no whitespace, exponent, underscore  *)
(* or line break, and prices have at most two decimals.                    *)
(* The entity's created_at / updated_at stamps are not part of the model:  *)
(* no operation reads them and they are not persisted.                     *)
(***************************************************************************)
EXTENDS Integers, Sequences, FiniteSets, TLC

(***************************************************************************)
(* Bounds of the model.                                                    *)
(***************************************************************************)
MaxProducts == 3
MaxQuantity == 5
MaxAutoId == 4

(***************************************************************************)
(* Program constants.                                                      *)
(***************************************************************************)
MaxIdLen == 20
MaxNameLen == 50
LOW_STOCK_THRESHOLD == 10
\* the default of the threshold parameter of find_low_stock and is_low_stock
DefaultThreshold == 10

(***************************************************************************)
(* Text: characters, sequences, and Python's str()/int()/float().          *)
(***************************************************************************)
Digits == <<"0", "1", "2", "3", "4", "5", "6", "7", "8", "9">>

IsDigit(c) == \E i \in 1..10 : Digits[i] = c

DigitVal(c) == (CHOOSE i \in 1..10 : Digits[i] = c) - 1

Range(s) == {s[i] : i \in 1..Len(s)}

AllDigits(s) == \A i \in 1..Len(s) : IsDigit(s[i])

RECURSIVE DigitsVal(_)
DigitsVal(s) ==
    IF Len(s) = 0 THEN 0
    ELSE 10 * DigitsVal(SubSeq(s, 1, Len(s) - 1)) + DigitVal(s[Len(s)])

RECURSIVE NatStr(_)
NatStr(n) ==
    IF n < 10 THEN <<Digits[n + 1]>>
    ELSE NatStr(n \div 10) \o <<Digits[(n % 10) + 1]>>

\* str(n) of a Python int
IntStr(n) == IF n < 0 THEN <<"-">> \o NatStr(-n) ELSE NatStr(n)

\* None (csv.DictReader's restval for a short row); no string equals it
None == <<"None", "None">>

HasSign(s) == Len(s) > 0 /\ s[1] \in {"+", "-"}

Unsigned(s) == IF HasSign(s) THEN Tail(s) ELSE s

\* int(s): [ok, val]; ok = FALSE stands for the ValueError / TypeError
ParseInt(s) ==
    IF s = None \/ Len(Unsigned(s)) = 0 \/ ~AllDigits(Unsigned(s))
    THEN [ok |-> FALSE, val |-> 0]
    ELSE [ok |-> TRUE,
          val |-> IF s[1] = "-" THEN -DigitsVal(Unsigned(s)) ELSE DigitsVal(Unsigned(s))]

\* position of the first "." of s, 0 when there is none
DotPos(s) ==
    IF \E i \in 1..Len(s) : s[i] = "."
    THEN CHOOSE i \in 1..Len(s) : s[i] = "." /\ \A j \in 1..(i - 1) : s[j] # "."
    ELSE 0

\* the hundredths a fraction text of at most two digits stands for
FracVal(f) ==
    IF Len(f) = 0 THEN 0
    ELSE IF Len(f) = 1 THEN 10 * DigitVal(f[1])
    ELSE DigitsVal(f)

\* float(s): [ok, val] with val in hundredths
ParseFloat(s) ==
    IF s = None THEN [ok |-> FALSE, val |-> 0]
    ELSE
    LET u == Unsigned(s)
        d == DotPos(u)
        ip == IF d = 0 THEN u ELSE SubSeq(u, 1, d - 1)
        fp == IF d = 0 THEN <<>> ELSE SubSeq(u, d + 1, Len(u))
        mag == 100 * DigitsVal(ip) + FracVal(fp)
    IN  IF Len(ip) + Len(fp) = 0 \/ ~AllDigits(ip) \/ ~AllDigits(fp) \/ Len(fp) > 2
        THEN [ok |-> FALSE, val |-> 0]
        ELSE [ok |-> TRUE, val |-> IF HasSign(s) /\ s[1] = "-" THEN -mag ELSE mag]

\* str(x) of a Python float holding h hundredths: shortest repr, at least one decimal
FloatStr(h) ==
    LET a == IF h < 0 THEN -h ELSE h
        f == a % 100
        fs == IF f % 10 = 0 THEN <<Digits[(f \div 10) + 1]>>
              ELSE <<Digits[(f \div 10) + 1], Digits[(f % 10) + 1]>>
    IN  (IF h < 0 THEN <<"-">> ELSE <<>>) \o NatStr(a \div 100) \o <<".">> \o fs

\* str.strip() leaves nothing: the string is empty or all blanks
IsBlank(s) == \A i \in 1..Len(s) : s[i] = " "

(***************************************************************************)
(* csv (excel dialect): one record a line, as csv.writer writes it and     *)
(* csv.reader reads it.                                                    *)
(***************************************************************************)
NeedsQuote(f) == \E i \in 1..Len(f) : f[i] \in {",", "\""}

RECURSIVE DoubleQuotes(_)
DoubleQuotes(f) ==
    IF Len(f) = 0 THEN <<>>
    ELSE (IF Head(f) = "\"" THEN <<"\"", "\"">> ELSE <<Head(f)>>) \o DoubleQuotes(Tail(f))

\* a field as the writer emits it (QUOTE_MINIMAL, doublequote); None is written empty
csv_field(f) ==
    IF f = None THEN <<>>
    ELSE IF NeedsQuote(f) THEN <<"\"">> \o DoubleQuotes(f) \o <<"\"">>
    ELSE f

RECURSIVE csv_writerow(_)
csv_writerow(fields) ==
    IF Len(fields) = 0 THEN <<>>
    ELSE IF Len(fields) = 1 THEN csv_field(fields[1])
    ELSE csv_field(Head(fields)) \o <<",">> \o csv_writerow(Tail(fields))

\* the reader's state machine over one line; an empty line is the empty record
RECURSIVE csv_parse(_, _, _, _, _)
csv_parse(line, i, st, cur, acc) ==
    IF i > Len(line)
    THEN IF Len(line) = 0 THEN <<>> ELSE Append(acc, cur)
    ELSE LET c == line[i] IN
         CASE st = "start_field" ->
                IF c = "\"" THEN csv_parse(line, i + 1, "in_quoted", <<>>, acc)
                ELSE IF c = "," THEN csv_parse(line, i + 1, "start_field", <<>>, Append(acc, <<>>))
                ELSE csv_parse(line, i + 1, "in_field", <<c>>, acc)
           [] st = "in_field" ->
                IF c = "," THEN csv_parse(line, i + 1, "start_field", <<>>, Append(acc, cur))
                ELSE csv_parse(line, i + 1, "in_field", Append(cur, c), acc)
           [] st = "in_quoted" ->
                IF c = "\"" THEN csv_parse(line, i + 1, "quote_in_quoted", cur, acc)
                ELSE csv_parse(line, i + 1, "in_quoted", Append(cur, c), acc)
           [] OTHER ->
                IF c = "\"" THEN csv_parse(line, i + 1, "in_quoted", Append(cur, c), acc)
                ELSE IF c = "," THEN csv_parse(line, i + 1, "start_field", <<>>, Append(acc, cur))
                ELSE csv_parse(line, i + 1, "in_field", Append(cur, c), acc)

csv_readrow(line) == csv_parse(line, 1, "start_field", <<>>, <<>>)

(***************************************************************************)
(* Product (models/product.py).  A product is the record of its            *)
(* attributes; price is in hundredths.                                     *)
(***************************************************************************)
Product(product_id, name, category, price, quantity, supplier, now) ==
    [product_id |-> product_id, name |-> name, category |-> category,
     price |-> price, quantity |-> quantity, supplier |-> supplier,
     date_added |-> now]

\* `not s`: None and the empty string are falsy
Falsy(s) == s = None \/ Len(s) = 0

\* Product.validate(): the list of violations, in the order the code appends them
validate(p) ==
    (IF Falsy(p.product_id) \/ IsBlank(p.product_id)
        THEN <<"Product ID cannot be empty">> ELSE <<>>)
    \o (IF Len(p.product_id) > MaxIdLen
        THEN <<"Product ID too long (max 20 characters)">> ELSE <<>>)
    \o (IF Falsy(p.name) \/ IsBlank(p.name)
        THEN <<"Product name cannot be empty">> ELSE <<>>)
    \o (IF Len(p.name) > MaxNameLen
        THEN <<"Product name too long (max 50 characters)">> ELSE <<>>)
    \o (IF p.price < 0 THEN <<"Price cannot be negative">> ELSE <<>>)
    \o (IF p.quantity < 0 THEN <<"Quantity cannot be negative">> ELSE <<>>)

is_valid(p) == Len(validate(p)) = 0

\* the setters: [ok, p]; ok = FALSE is the ValueError, raised before the assignment
set_name(p, value) ==
    IF Falsy(value) \/ IsBlank(value) \/ Len(value) > MaxNameLen
    THEN [ok |-> FALSE, p |-> p]
    ELSE [ok |-> TRUE, p |-> [p EXCEPT !.name = value]]

set_category(p, value) == [ok |-> TRUE, p |-> [p EXCEPT !.category = value]]

set_price(p, value) ==
    IF value < 0 THEN [ok |-> FALSE, p |-> p]
    ELSE [ok |-> TRUE, p |-> [p EXCEPT !.price = value]]

set_quantity(p, value) ==
    IF value < 0 THEN [ok |-> FALSE, p |-> p]
    ELSE [ok |-> TRUE, p |-> [p EXCEPT !.quantity = value]]

set_supplier(p, value) == [ok |-> TRUE, p |-> [p EXCEPT !.supplier = value]]

\* to_dict() with the price written as a whole number
to_dict_int_price(p) ==
    <<p.product_id, p.name, p.category, IntStr(p.price \div 100), IntStr(p.quantity),
      p.supplier, p.date_added>>

\* Product.to_dict() in the column order of Config.PRODUCT_FIELDS, each value as
\* csv.writer writes it: str() of the float and of the int, the strings as they are
PRODUCT_FIELDS ==
    << <<"p","r","o","d","u","c","t","_","i","d">>, <<"n","a","m","e">>,
       <<"c","a","t","e","g","o","r","y">>, <<"p","r","i","c","e">>,
       <<"q","u","a","n","t","i","t","y">>, <<"s","u","p","p","l","i","e","r">>,
       <<"d","a","t","e","_","a","d","d","e","d">> >>

to_dict(p) ==
    <<p.product_id, p.name, p.category, FloatStr(p.price), IntStr(p.quantity),
      p.supplier, p.date_added>>

\* a number held under a key of the update dict: Some(v) is the number v, and
\* NoneNumber is the value None under that key
Some(v) == <<v>>
NoneNumber == <<>>
IsNone(x) == Len(x) = 0
Number(x) == x[1]

\* one step of update_from_dict that also empties a supplier the dict leaves out
apply_field_default(r, data, key) ==
    IF ~r.ok THEN r
    ELSE IF key \notin DOMAIN data
    THEN (IF key = "supplier" THEN set_supplier(r.p, <<>>) ELSE r)
    ELSE CASE key = "name" ->
                IF Falsy(data[key]) THEN r ELSE set_name(r.p, data[key])
           [] key = "category" ->
                IF Falsy(data[key]) THEN r ELSE set_category(r.p, data[key])
           [] key = "price" ->
                IF IsNone(data[key]) THEN r ELSE set_price(r.p, Number(data[key]))
           [] key = "quantity" ->
                IF IsNone(data[key]) THEN r ELSE set_quantity(r.p, Number(data[key]))
           [] OTHER ->
                IF Falsy(data[key]) THEN r ELSE set_supplier(r.p, data[key])

\* one step of update_from_dict: apply `key` when the guard of its `if` holds.
\* name, category and supplier are tested for truth, price and quantity only
\* against None
apply_field(r, data, key) ==
    IF ~r.ok \/ key \notin DOMAIN data THEN r
    ELSE CASE key = "name" ->
                IF Falsy(data[key]) THEN r ELSE set_name(r.p, data[key])
           [] key = "category" ->
                IF Falsy(data[key]) THEN r ELSE set_category(r.p, data[key])
           [] key = "price" ->
                IF IsNone(data[key]) THEN r ELSE set_price(r.p, Number(data[key]))
           [] key = "quantity" ->
                IF IsNone(data[key]) THEN r ELSE set_quantity(r.p, Number(data[key]))
           [] OTHER ->
                IF Falsy(data[key]) THEN r ELSE set_supplier(r.p, data[key])

\* update_from_dict() that applies all the fields or none of them
update_from_dict_atomic(p, data) ==
    LET r == apply_field(
               apply_field(
                 apply_field(
                   apply_field(
                     apply_field([ok |-> TRUE, p |-> p], data, "name"),
                     data, "category"),
                   data, "price"),
                 data, "quantity"),
               data, "supplier")
    IN  IF r.ok THEN r ELSE [ok |-> FALSE, p |-> p]

\* Product.update_from_dict(data): the fields in the code's order; the first
\* setter that raises stops it, the fields set before it stay set
update_from_dict(p, data) ==
    apply_field(
      apply_field(
        apply_field(
          apply_field(
            apply_field([ok |-> TRUE, p |-> p], data, "name"),
            data, "category"),
          data, "price"),
        data, "quantity"),
      data, "supplier")

get_total_value(p) == p.price * p.quantity

\* is_low_stock() counting a quantity equal to the threshold as low
is_low_stock_inclusive(p, threshold) == p.quantity <= threshold

\* Product.is_low_stock(threshold)
is_low_stock(p, threshold) == p.quantity < threshold

\* adjust_quantity() with the comparison off by one: a result of 0 is refused
adjust_quantity_strict(p, amount) ==
    LET new_quantity == p.quantity + amount
    IN  IF new_quantity <= 0 THEN [ok |-> FALSE, p |-> p]
        ELSE set_quantity(p, new_quantity)

\* Product.adjust_quantity(amount)
adjust_quantity(p, amount) ==
    LET new_quantity == p.quantity + amount
    IN  IF new_quantity < 0 THEN [ok |-> FALSE, p |-> p]
        ELSE set_quantity(p, new_quantity)

(***************************************************************************)
(* ProductRepository, in memory.  The dict _products is the sequence of    *)
(* its values in insertion order; the keys are the products' ids.          *)
(***************************************************************************)
Ids(prods) == {prods[i].product_id : i \in 1..Len(prods)}

exists(prods, product_id) == product_id \in Ids(prods)

count(prods) == Len(prods)

IndexOf(prods, product_id) ==
    CHOOSE i \in 1..Len(prods) : prods[i].product_id = product_id

\* _products.get(product_id): the stored product, None when absent
get_by_id(prods, product_id) ==
    IF exists(prods, product_id) THEN prods[IndexOf(prods, product_id)] ELSE None

get_all(prods) == prods

\* _products[p.product_id] = p: a stored key keeps its position, a new key goes last
dict_set(prods, p) ==
    IF exists(prods, p.product_id)
    THEN [prods EXCEPT ![IndexOf(prods, p.product_id)] = p]
    ELSE Append(prods, p)

\* del _products[product_id]
dict_del(prods, product_id) ==
    LET k == IndexOf(prods, product_id)
    IN  SubSeq(prods, 1, k - 1) \o SubSeq(prods, k + 1, Len(prods))

\* the scan without its comparison: the last id that parses wins
RECURSIVE max_id_last(_, _)
max_id_last(prods, m) ==
    IF Len(prods) = 0 THEN m
    ELSE LET r == ParseInt(Head(prods).product_id)
         IN  max_id_last(Tail(prods), IF r.ok THEN r.val ELSE m)

\* the maximum over the ids that parse as integers, starting from max_id = 0
RECURSIVE max_id(_, _)
max_id(prods, m) ==
    IF Len(prods) = 0 THEN m
    ELSE LET r == ParseInt(Head(prods).product_id)
         IN  max_id(Tail(prods), IF r.ok /\ r.val > m THEN r.val ELSE m)

\* get_next_id() counting the products instead of scanning their ids
next_id_of_count(prods) == Len(prods) + 1

\* ProductRepository.get_next_id(): the value assigned to _next_id
next_id_of(prods) == max_id(prods, 0) + 1

\* add() without its duplicate check: a stored id is overwritten
add_overwrite(prods, p) ==
    IF ~is_valid(p)
    THEN [ok |-> FALSE, products |-> prods, err |-> "Invalid product data"]
    ELSE [ok |-> TRUE, products |-> dict_set(prods, p), err |-> ""]

\* update() without its existence check: an unknown id is inserted
update_upsert(prods, p) ==
    IF ~is_valid(p)
    THEN [ok |-> FALSE, products |-> prods, err |-> "Invalid product data"]
    ELSE [ok |-> TRUE, products |-> dict_set(prods, p), err |-> ""]

\* delete() dropping the last entry instead of the entry of the id
delete_last(prods, product_id) ==
    IF ~exists(prods, product_id)
    THEN [ok |-> FALSE, products |-> prods, err |-> "not found"]
    ELSE [ok |-> TRUE, products |-> SubSeq(prods, 1, Len(prods) - 1), err |-> ""]

\* ProductRepository.add / update / delete on the dict: [ok, products, err]
add(prods, p) ==
    IF exists(prods, p.product_id)
    THEN [ok |-> FALSE, products |-> prods, err |-> "already exists"]
    ELSE IF ~is_valid(p)
    THEN [ok |-> FALSE, products |-> prods, err |-> "Invalid product data"]
    ELSE [ok |-> TRUE, products |-> dict_set(prods, p), err |-> ""]

update(prods, p) ==
    IF ~exists(prods, p.product_id)
    THEN [ok |-> FALSE, products |-> prods, err |-> "not found"]
    ELSE IF ~is_valid(p)
    THEN [ok |-> FALSE, products |-> prods, err |-> "Invalid product data"]
    ELSE [ok |-> TRUE, products |-> dict_set(prods, p), err |-> ""]

delete(prods, product_id) ==
    IF ~exists(prods, product_id)
    THEN [ok |-> FALSE, products |-> prods, err |-> "not found"]
    ELSE [ok |-> TRUE, products |-> dict_del(prods, product_id), err |-> ""]

\* ProductRepository.find_low_stock(threshold): the comprehension over the
\* values of the dict, with its own comparison
RECURSIVE find_low_stock(_, _)
find_low_stock(prods, threshold) ==
    IF Len(prods) = 0 THEN <<>>
    ELSE (IF Head(prods).quantity < threshold THEN <<Head(prods)>> ELSE <<>>)
         \o find_low_stock(Tail(prods), threshold)

(***************************************************************************)
(* ProductRepository, persistence.  The backing file is                    *)
(* [exists, lines]: whether the path exists, and its lines.                *)
(***************************************************************************)
RECURSIVE rows_of(_)
rows_of(prods) ==
    IF Len(prods) = 0 THEN <<>>
    ELSE <<csv_writerow(to_dict(Head(prods)))>> \o rows_of(Tail(prods))

\* what save() writes: nothing for the empty dict, else the header and a row a product
written(prods) ==
    IF Len(prods) = 0 THEN <<>>
    ELSE <<csv_writerow(PRODUCT_FIELDS)>> \o rows_of(prods)

\* what a write that raises leaves in the file that open(..., 'w') has emptied:
\* nothing ("truncated"), or the lines before the last one ("partial")
torn(prods, io) ==
    IF io = "truncated" \/ Len(written(prods)) = 0 THEN <<>>
    ELSE SubSeq(written(prods), 1, Len(written(prods)) - 1)

\* save() opening the file to append instead of to rewrite
save_append(prods, f, io) ==
    IF io = "error" THEN [ok |-> FALSE, file |-> f]
    ELSE IF io \in {"truncated", "partial"}
    THEN [ok |-> FALSE, file |-> [exists |-> TRUE, lines |-> f.lines \o torn(prods, io)]]
    ELSE [ok |-> TRUE, file |-> [exists |-> TRUE, lines |-> f.lines \o written(prods)]]

\* ProductRepository.save(): [ok, file]; io = "error" is makedirs/open raising,
\* the file untouched; "truncated" and "partial" are a write raising
save(prods, f, io) ==
    IF io = "error" THEN [ok |-> FALSE, file |-> f]
    ELSE IF io \in {"truncated", "partial"}
    THEN [ok |-> FALSE, file |-> [exists |-> TRUE, lines |-> torn(prods, io)]]
    ELSE [ok |-> TRUE, file |-> [exists |-> TRUE, lines |-> written(prods)]]

\* a DictReader row: the cell under column `key` ([has, val]); a key the header
\* repeats takes its last column, a column the row is too short for is None
cell(fieldnames, row, key) ==
    LET cols == {i \in 1..Len(fieldnames) : fieldnames[i] = key}
    IN  IF cols = {} THEN [has |-> FALSE, val |-> None]
        ELSE LET i == CHOOSE j \in cols : \A k \in cols : k <= j
             IN  [has |-> TRUE, val |-> IF i <= Len(row) THEN row[i] ELSE None]

\* the body of load()'s loop over the lines after the header: [ok, products];
\* ok = FALSE is the KeyError / ValueError / TypeError of the first bad row, and
\* products then holds the rows stored before it
RECURSIVE load_rows(_, _, _, _, _)
load_rows(lines, k, fieldnames, prods, now) ==
    IF k > Len(lines) THEN [ok |-> TRUE, products |-> prods]
    ELSE
    LET row == csv_readrow(lines[k])
        c(n) == cell(fieldnames, row, PRODUCT_FIELDS[n])
        price == ParseFloat(c(4).val)
        quantity == ParseInt(c(5).val)
    IN  IF Len(row) = 0 THEN load_rows(lines, k + 1, fieldnames, prods, now)
        ELSE IF ~(c(1).has /\ c(2).has /\ c(3).has /\ c(4).has /\ c(5).has)
                \/ ~price.ok \/ ~quantity.ok
        THEN [ok |-> FALSE, products |-> prods]
        ELSE load_rows(lines, k + 1, fieldnames,
                dict_set(prods,
                    Product(c(1).val, c(2).val, c(3).val, price.val, quantity.val,
                            IF c(6).has THEN c(6).val ELSE <<>>,
                            IF c(7).has THEN c(7).val ELSE now)),
                now)

\* ProductRepository.load(): [ok, products, is_loaded]; io = "error" is open() raising
load(prods, f, loaded, io, now) ==
    IF ~f.exists THEN [ok |-> TRUE, products |-> prods, is_loaded |-> TRUE]
    ELSE IF io = "error" THEN [ok |-> FALSE, products |-> <<>>, is_loaded |-> loaded]
    ELSE IF Len(f.lines) = 0 THEN [ok |-> TRUE, products |-> <<>>, is_loaded |-> TRUE]
    ELSE LET r == load_rows(f.lines, 2, csv_readrow(f.lines[1]), <<>>, now)
         IN  [ok |-> r.ok, products |-> r.products,
              is_loaded |-> IF r.ok THEN TRUE ELSE loaded]

(***************************************************************************)
(* BaseService: the observers and notify_observers.                        *)
(***************************************************************************)
\* observers whose update hook raises, and objects that have no update attribute
RaisingObservers == {"failing"}
HooklessObservers == {"mute"}

\* notify_observers calling every hook twice
RECURSIVE notify_observers_twice(_, _, _, _)
notify_observers_twice(obs, event_type, data, sent) ==
    IF Len(obs) = 0 THEN [ok |-> TRUE, events |-> sent]
    ELSE IF Head(obs) \in HooklessObservers
    THEN notify_observers_twice(Tail(obs), event_type, data, sent)
    ELSE LET e == [observer |-> Head(obs), event_type |-> event_type, data |-> data]
         IN  IF Head(obs) \in RaisingObservers
             THEN [ok |-> FALSE, events |-> Append(sent, e)]
             ELSE notify_observers_twice(Tail(obs), event_type, data,
                                         Append(Append(sent, e), e))

\* notify_observers walking the list from its end
RECURSIVE notify_observers_reversed(_, _, _, _)
notify_observers_reversed(obs, event_type, data, sent) ==
    IF Len(obs) = 0 THEN [ok |-> TRUE, events |-> sent]
    ELSE LET last == obs[Len(obs)]
             rest == SubSeq(obs, 1, Len(obs) - 1)
             e == [observer |-> last, event_type |-> event_type, data |-> data]
         IN  IF last \in HooklessObservers
             THEN notify_observers_reversed(rest, event_type, data, sent)
             ELSE IF last \in RaisingObservers
             THEN [ok |-> FALSE, events |-> Append(sent, e)]
             ELSE notify_observers_reversed(rest, event_type, data, Append(sent, e))

\* notify_observers: [ok, events]; the hooks run in list order, a hook that
\* raises ends the loop, an observer without the hook is passed over
RECURSIVE notify_observers(_, _, _, _)
notify_observers(obs, event_type, data, sent) ==
    IF Len(obs) = 0 THEN [ok |-> TRUE, events |-> sent]
    ELSE IF Head(obs) \in HooklessObservers
    THEN notify_observers(Tail(obs), event_type, data, sent)
    ELSE LET e == [observer |-> Head(obs), event_type |-> event_type, data |-> data]
         IN  IF Head(obs) \in RaisingObservers
             THEN [ok |-> FALSE, events |-> Append(sent, e)]
             ELSE notify_observers(Tail(obs), event_type, data, Append(sent, e))

(***************************************************************************)
(* State.                                                                  *)
(*   products, next_id, is_loaded : the repository's _products, _next_id   *)
(*                                  and _is_loaded                         *)
(*   file       : the backing CSV file                                     *)
(*   observers  : the service's _observers                                 *)
(*   events     : the hook calls made by the last operation                *)
(*   op, before : the last operation (name, arguments, outcome) and the    *)
(*                collection it started from                               *)
(*   file_before : the backing file when the last operation started        *)
(***************************************************************************)
VARIABLES products, next_id, is_loaded, file, observers, events, op, before,
          file_before

vars == <<products, next_id, is_loaded, file, observers, events, op, before,
          file_before>>

NoId == <<>>
NoData == <<>>
NoProduct == Product(NoId, <<>>, <<>>, 0, 0, <<>>, <<>>)

\* An exception is [type, msg], msg the parts of its message.  The cause of a
\* failure: the ValueError of the entity or of the repository, the error of
\* the file system, or what an observer's update hook raised.
NoException == [type |-> "", msg |-> <<>>]

cause_exception(err) ==
    CASE err = "observer" -> [type |-> "ObserverError", msg |-> <<"observer">>]
      [] err = "storage" -> [type |-> "OSError", msg |-> <<"storage">>]
      [] OTHER -> [type |-> "ValueError", msg |-> <<err>>]

\* except Exception as e: raise Exception(f"<context>: {str(e)}")
wrap(context, e) == [type |-> "Exception", msg |-> <<context>> \o e.msg]

\* the exception that reaches the caller of method `name`: the except clause
\* of a service method covers its whole try block, the notification included;
\* update_product and adjust_stock look the product up before their try
raised_to_caller(name, ok, err) ==
    IF ok THEN NoException
    ELSE LET e == cause_exception(err)
         IN  CASE name \in {"create_product", "create_product_auto_id"} ->
                      wrap("Failed to create product", e)
               [] name = "delete_product" -> wrap("Failed to delete product", e)
               [] name = "update_product" ->
                      IF err = "not found" THEN e
                      ELSE wrap("Failed to update product", e)
               [] name = "adjust_stock" ->
                      IF err = "not found" THEN e
                      ELSE wrap("Failed to adjust stock", e)
               [] name = "load" -> wrap("Error loading data", e)
               [] name = "save" -> wrap("Error saving data", e)
               [] OTHER -> e

Op(name, ok, err, product_id, ent, data, amount, ret) ==
    [name |-> name, ok |-> ok, err |-> err, id |-> product_id, ent |-> ent,
     data |-> data, amount |-> amount, ret |-> ret,
     raised |-> raised_to_caller(name, ok, err)]

\* the state after construction: an empty repository, no observers
InitRepo ==
    /\ products = <<>>
    /\ next_id = 1
    /\ is_loaded = FALSE
    /\ observers = <<>>
    /\ events = <<>>
    /\ op = Op("init", TRUE, "", NoId, NoProduct, NoData, 0, <<>>)
    /\ before = <<>>
    /\ file_before = file

(***************************************************************************)
(* Repository operations.  P is the set of entities, I the set of ids the  *)
(* caller may pass.                                                        *)
(***************************************************************************)
GetNextId ==
    /\ next_id' = next_id_of(products)
    /\ op' = Op("get_next_id", TRUE, "", NoId, NoProduct, NoData, 0,
                IntStr(next_id_of(products)))
    /\ before' = products /\ file_before' = file
    /\ events' = <<>>
    /\ UNCHANGED <<products, is_loaded, file, observers>>

Add(P) ==
    \E p \in P :
        \E r \in {add(products, p)} :
            /\ Len(r.products) <= MaxProducts
            /\ products' = r.products
            /\ op' = Op("add", r.ok, r.err, p.product_id, p, NoData, 0, <<>>)
            /\ before' = products /\ file_before' = file
            /\ events' = <<>>
            /\ UNCHANGED <<next_id, is_loaded, file, observers>>

Update(P) ==
    \E p \in P :
        \E r \in {update(products, p)} :
            /\ products' = r.products
            /\ op' = Op("update", r.ok, r.err, p.product_id, p, NoData, 0, <<>>)
            /\ before' = products /\ file_before' = file
            /\ events' = <<>>
            /\ UNCHANGED <<next_id, is_loaded, file, observers>>

Delete(I) ==
    \E i \in I :
        \E r \in {delete(products, i)} :
            /\ products' = r.products
            /\ op' = Op("delete", r.ok, r.err, i, NoProduct, NoData, 0, <<>>)
            /\ before' = products /\ file_before' = file
            /\ events' = <<>>
            /\ UNCHANGED <<next_id, is_loaded, file, observers>>

Clear ==
    /\ products' = <<>>
    /\ next_id' = 1
    /\ op' = Op("clear", TRUE, "", NoId, NoProduct, NoData, 0, <<>>)
    /\ before' = products /\ file_before' = file
    /\ events' = <<>>
    /\ UNCHANGED <<is_loaded, file, observers>>

\* save() that empties the dict when it fails
Save_forgetting(IOs) ==
    \E io \in IOs :
        \E r \in {save(products, file, io)} :
            /\ file' = r.file
            /\ products' = IF r.ok THEN products ELSE <<>>
            /\ op' = Op("save", r.ok, IF r.ok THEN "" ELSE "storage", NoId, NoProduct,
                        NoData, 0, <<>>)
            /\ before' = products /\ file_before' = file
            /\ events' = <<>>
            /\ UNCHANGED <<next_id, is_loaded, observers>>

\* save(): the dict is read, never written
Save(IOs) ==
    \E io \in IOs :
        \E r \in {save(products, file, io)} :
            /\ file' = r.file
            /\ op' = Op("save", r.ok, IF r.ok THEN "" ELSE "storage", NoId, NoProduct,
                        NoData, 0, <<>>)
            /\ before' = products /\ file_before' = file
            /\ events' = <<>>
            /\ UNCHANGED <<products, next_id, is_loaded, observers>>

\* load() ends with get_next_id() when it has read the file
Load(IOs, Clock) ==
    \E io \in IOs, now \in Clock :
        \E r \in {load(products, file, is_loaded, io, now)} :
            /\ products' = r.products
            /\ is_loaded' = r.is_loaded
            /\ next_id' = IF r.ok /\ file.exists THEN next_id_of(r.products) ELSE next_id
            /\ op' = Op("load", r.ok, IF r.ok THEN "" ELSE "storage", NoId, NoProduct,
                        NoData, 0, <<>>)
            /\ before' = products /\ file_before' = file
            /\ events' = <<>>
            /\ UNCHANGED <<file, observers>>

(***************************************************************************)
(* ProductService.  Each action is the whole method: the entity call, the  *)
(* repository call and the notification, with the method's try/except.     *)
(***************************************************************************)
\* create_product: P holds Product(product_id, name, ..., supplier) for the
\* arguments the caller may pass, stamped with the time of the call
CreateProduct(P) ==
    \E p \in P :
        \E r \in {add(products, p)},
           n \in {notify_observers(observers, "product_created", p, <<>>)} :
            /\ Len(r.products) <= MaxProducts
            /\ products' = r.products
            /\ events' = IF r.ok THEN n.events ELSE <<>>
            /\ op' = Op("create_product", r.ok /\ n.ok,
                        IF ~r.ok THEN r.err ELSE IF ~n.ok THEN "observer" ELSE "",
                        p.product_id, p, NoData, 0, <<>>)
            /\ before' = products /\ file_before' = file
            /\ UNCHANGED <<next_id, is_loaded, file, observers>>

\* create_product_auto_id: A holds the products to create, their id left open
CreateProductAutoId(A) ==
    \E a \in A :
        \E p \in {[a EXCEPT !.product_id = IntStr(next_id_of(products))]} :
        \E r \in {add(products, p)},
           n \in {notify_observers(observers, "product_created", p, <<>>)} :
            /\ Len(r.products) <= MaxProducts
            /\ next_id_of(products) <= MaxAutoId
            /\ products' = r.products
            /\ next_id' = next_id_of(products)
            /\ events' = IF r.ok THEN n.events ELSE <<>>
            /\ op' = Op("create_product_auto_id", r.ok /\ n.ok,
                        IF ~r.ok THEN r.err ELSE IF ~n.ok THEN "observer" ELSE "",
                        p.product_id, p, NoData, 0, p.product_id)
            /\ before' = products /\ file_before' = file
            /\ UNCHANGED <<is_loaded, file, observers>>

\* update_product: the stored object is changed in place by update_from_dict,
\* so what a setter has set stays set when a later step raises
UpdateProduct(I, D) ==
    \E i \in I, data \in D :
        IF ~exists(products, i)
        THEN /\ op' = Op("update_product", FALSE, "not found", i, NoProduct, data, 0, <<>>)
             /\ before' = products /\ file_before' = file
             /\ events' = <<>>
             /\ UNCHANGED <<products, next_id, is_loaded, file, observers>>
        ELSE \E s \in {update_from_dict(get_by_id(products, i), data)} :
             \E changed \in {dict_set(products, s.p)} :
             \E r \in {update(changed, s.p)},
                n \in {notify_observers(observers, "product_updated", s.p, <<>>)} :
                 /\ products' = IF s.ok THEN r.products ELSE changed
                 /\ events' = IF s.ok /\ r.ok THEN n.events ELSE <<>>
                 /\ op' = Op("update_product", s.ok /\ r.ok /\ n.ok,
                             IF ~s.ok THEN "setter" ELSE IF ~r.ok THEN r.err
                             ELSE IF ~n.ok THEN "observer" ELSE "",
                             i, s.p, data, 0, <<>>)
                 /\ before' = products /\ file_before' = file
                 /\ UNCHANGED <<next_id, is_loaded, file, observers>>

\* delete_product: the entity is fetched first, to be the event's payload
DeleteProduct(I) ==
    \E i \in I :
        \E r \in {delete(products, i)} :
        \E n \in {IF r.ok
                  THEN notify_observers(observers, "product_deleted",
                                        get_by_id(products, i), <<>>)
                  ELSE [ok |-> TRUE, events |-> <<>>]} :
            /\ products' = r.products
            /\ events' = n.events
            /\ op' = Op("delete_product", r.ok /\ n.ok,
                        IF ~r.ok THEN r.err ELSE IF ~n.ok THEN "observer" ELSE "",
                        i, IF r.ok THEN get_by_id(products, i) ELSE NoProduct,
                        NoData, 0, <<>>)
            /\ before' = products /\ file_before' = file
            /\ UNCHANGED <<next_id, is_loaded, file, observers>>

\* adjust_stock: adjust_quantity raises before it assigns; the repository's
\* update then validates the object already changed
AdjustStock(I, N) ==
    \E i \in I, amount \in N :
        IF ~exists(products, i)
        THEN /\ op' = Op("adjust_stock", FALSE, "not found", i, NoProduct, NoData,
                         amount, <<>>)
             /\ before' = products /\ file_before' = file
             /\ events' = <<>>
             /\ UNCHANGED <<products, next_id, is_loaded, file, observers>>
        ELSE \E s \in {adjust_quantity(get_by_id(products, i), amount)} :
             \E changed \in {dict_set(products, s.p)} :
             \E r \in {update(changed, s.p)},
                n \in {notify_observers(observers, "stock_adjusted",
                                        [product |-> s.p, amount |-> amount], <<>>)} :
                 /\ s.p.quantity <= MaxQuantity
                 /\ products' = IF s.ok THEN r.products ELSE changed
                 /\ events' = IF s.ok /\ r.ok THEN n.events ELSE <<>>
                 /\ op' = Op("adjust_stock", s.ok /\ r.ok /\ n.ok,
                             IF ~s.ok THEN "Insufficient quantity" ELSE IF ~r.ok THEN r.err
                             ELSE IF ~n.ok THEN "observer" ELSE "",
                             i, s.p, NoData, amount, <<>>)
                 /\ before' = products /\ file_before' = file
                 /\ UNCHANGED <<next_id, is_loaded, file, observers>>

\* attach_observer / detach_observer; op.id is the observer passed
AttachObserver(O) ==
    \E o \in O :
        /\ observers' = IF o \in Range(observers) THEN observers ELSE Append(observers, o)
        /\ op' = Op("attach_observer", TRUE, "", o, NoProduct, NoData, 0, <<>>)
        /\ before' = products /\ file_before' = file
        /\ events' = <<>>
        /\ UNCHANGED <<products, next_id, is_loaded, file>>

DetachObserver(O) ==
    \E o \in O :
        /\ observers' = SelectSeq(observers, LAMBDA x : x # o)
        /\ op' = Op("detach_observer", TRUE, "", o, NoProduct, NoData, 0, <<>>)
        /\ before' = products /\ file_before' = file
        /\ events' = <<>>
        /\ UNCHANGED <<products, next_id, is_loaded, file>>

(***************************************************************************)
(* The inputs the specifications draw from.                                *)
(***************************************************************************)
\* datetime.now().strftime("%Y-%m-%d %H:%M:%S") at two moments
T1 == <<"2","0","2","4","-","0","1","-","0","1"," ","1","0",":","0","0",":","0","0">>
T2 == <<"2","0","2","4","-","0","1","-","0","2"," ","0","9",":","3","0",":","1","5">>

LongId == [i \in 1..(MaxIdLen + 1) |-> "9"]
LongName == [i \in 1..(MaxNameLen + 1) |-> "x"]

StoredIds == {<<"3">>, <<"7">>, <<"a","b","c">>}

\* entities that pass validate(), one per id
ValidEntities(I) ==
    {Product(i, <<"A">>, <<"c">>, 100, 5, <<>>, T1) : i \in I}

\* entities that validate() rejects: a negative price, a blank name, a long id
InvalidEntities ==
    { Product(<<"3">>, <<"A">>, <<"c">>, -100, 5, <<>>, T1),
      Product(<<"7">>, <<" ">>, <<"c">>, 100, 5, <<>>, T1),
      Product(LongId, <<"A">>, <<"c">>, 100, 5, <<>>, T1) }

Entities == ValidEntities(StoredIds) \cup InvalidEntities

\* partial updates: a valid field, a valid field before an invalid one, an
\* invalid field alone
Updates ==
    { [name |-> <<"B">>],
      [name |-> <<"B">>, price |-> Some(-100)],
      [name |-> <<"A">>, quantity |-> Some(-1)],
      [price |-> Some(-100)] }

Amounts == {-6, -5, 5}

Init ==
    /\ file = [exists |-> FALSE, lines |-> <<>>]
    /\ InitRepo

Next ==
    \/ Add(Entities)
    \/ Update(Entities)
    \/ Delete(StoredIds)
    \/ Clear
    \/ CreateProduct(Entities)
    \/ UpdateProduct(StoredIds, Updates)
    \/ DeleteProduct(StoredIds)
    \/ AdjustStock(StoredIds, Amounts)

Spec == Init /\ [][Next]_vars

(***************************************************************************)
(* Properties of the in-memory operations, under Spec.                     *)
(***************************************************************************)
Stored(prods, product_id) == prods[IndexOf(prods, product_id)]

\* C1: add(p) of a valid p whose id is not stored succeeds and get_by_id(p.id)
\* then returns p; add(p) of a stored id fails and leaves the stored entity and
\* the rest of the collection as they were.
C1_AddThenGetById ==
    op.name = "add" =>
        /\ (~exists(before, op.id) /\ is_valid(op.ent)) =>
               /\ op.ok
               /\ exists(products, op.id)
               /\ get_by_id(products, op.id) = op.ent
        /\ exists(before, op.id) =>
               /\ ~op.ok
               /\ products = before

\* a duplicate add whose entity differs from the stored one, beside another product
C1_Witness ==
    /\ op.name = "add"
    /\ ~op.ok
    /\ exists(before, op.id)
    /\ Stored(before, op.id) # op.ent
    /\ Len(before) = 2

\* the failures C2 names: a duplicate id, a missing id, a negative price or
\* quantity in update_product, insufficient stock
DomainFailure ==
    /\ ~op.ok
    /\ \/ op.err \in {"already exists", "not found", "Insufficient quantity"}
       \/ /\ op.name = "update_product"
          /\ op.err = "setter"
          /\ \/ /\ "price" \in DOMAIN op.data
                /\ ~IsNone(op.data["price"])
                /\ Number(op.data["price"]) < 0
             \/ /\ "quantity" \in DOMAIN op.data
                /\ ~IsNone(op.data["quantity"])
                /\ Number(op.data["quantity"]) < 0

\* C2: an operation that fails with a domain-rule violation leaves the in-memory
\* collection exactly as it was before the call, also when update_product is
\* given a valid field followed by an invalid one.
C2_FailureLeavesCollection == DomainFailure => products = before

\* C8: update(e) never inserts; an unknown id fails and the stored ids are as
\* before; an invalid e fails and the stored value stays; otherwise e is stored
\* under its id, and count, the other values and every position are unchanged.
C8_UpdateNeverInserts ==
    op.name = "update" =>
        /\ Ids(products) = Ids(before)
        /\ ~exists(before, op.id) => (~op.ok /\ products = before)
        /\ (exists(before, op.id) /\ ~is_valid(op.ent)) =>
               (~op.ok /\ Stored(products, op.id) = Stored(before, op.id))
        /\ (exists(before, op.id) /\ is_valid(op.ent)) =>
               /\ op.ok
               /\ Stored(products, op.id) = op.ent
               /\ count(products) = count(before)
               /\ \A i \in 1..Len(before) :
                      /\ products[i].product_id = before[i].product_id
                      /\ before[i].product_id # op.id => products[i] = before[i]

\* an update that replaces a different stored value, beside another product
C8_Witness ==
    /\ op.name = "update"
    /\ op.ok
    /\ Len(before) = 2
    /\ Stored(before, op.id) # op.ent
    /\ before[1].product_id = op.id

Without(prods, product_id) == SelectSeq(prods, LAMBDA x : x.product_id # product_id)

IdPool == {<<"3">>, <<"7">>, <<"a","b","c">>, <<"-","5">>}

AutoIds == {IntStr(k) : k \in 1..MaxAutoId}

NextIds ==
    \/ GetNextId
    \/ Add(ValidEntities(IdPool))
    \/ Delete(IdPool \cup AutoIds)
    \/ CreateProductAutoId(ValidEntities({NoId}))
    \/ Clear

SpecIds == Init /\ [][NextIds]_vars

\* the ids of prods that int() accepts, as numbers
NumericIds(prods) ==
    {ParseInt(i).val : i \in {j \in Ids(prods) : ParseInt(j).ok}}

MaxOf(S) == CHOOSE m \in S : \A x \in S : x <= m

\* C6 as stated: get_next_id() returns str(M + 1), M the maximum of the ids that
\* parse as integers and 0 when none does.
C6_NextIdIsMaxPlusOne ==
    op.name = "get_next_id" =>
        op.ret = IntStr((IF NumericIds(before) = {} THEN 0
                         ELSE MaxOf(NumericIds(before))) + 1)

\* C6 as amended: get_next_id() returns str(M + 1), M the maximum of 0 and the
\* ids that parse as integers; it is recomputed from the current ids on each
\* call, whatever _next_id held: "1" when nothing is stored, "8" for the ids
\* "3", "7" and for "3", "7", "abc".
C6_NextIdIsMaxWithZeroPlusOne ==
    /\ op.name = "get_next_id" =>
        /\ op.ret = IntStr(MaxOf(NumericIds(before) \cup {0}) + 1)
        /\ next_id = MaxOf(NumericIds(before) \cup {0}) + 1
        /\ products = before
        /\ Len(before) = 0 => op.ret = <<"1">>
        /\ Ids(before) \in {{<<"3">>, <<"7">>}, {<<"3">>, <<"7">>, <<"a","b","c">>}}
               => op.ret = <<"8">>
    /\ next_id_of(products) = MaxOf(NumericIds(products) \cup {0}) + 1

\* get_next_id() with "7", "abc" and "3" stored, in that order, and a stale _next_id
C6_Witness ==
    /\ op.name = "get_next_id"
    /\ Len(before) = 3
    /\ before[1].product_id = <<"7">>
    /\ before[2].product_id = <<"a","b","c">>
    /\ before[3].product_id = <<"3">>
    /\ op.ret = <<"8">>

(***************************************************************************)
(* SpecStore: persistence.  The repository starts on a file that is        *)
(* absent, well formed, written without the optional columns, or broken    *)
(* in its second row; save and load may meet an I/O error.                 *)
(***************************************************************************)
HeaderLine == csv_writerow(PRODUCT_FIELDS)

GoodFile ==
    [exists |-> TRUE,
     lines |-> << HeaderLine,
                  csv_writerow(<< <<"7">>, <<"P",",","Q">>, <<"d">>, <<"2",".","5">>,
                                  <<"0">>, <<"S">>, T1 >>),
                  csv_writerow(<< <<"3">>, <<"A">>, <<"c">>, <<"1","0">>,
                                  <<"5">>, <<>>, T1 >>) >>]

\* the second row's price is not a number
BadRowFile ==
    [exists |-> TRUE,
     lines |-> << HeaderLine,
                  csv_writerow(<< <<"7">>, <<"A">>, <<"c">>, <<"1",".","0">>,
                                  <<"5">>, <<>>, T1 >>),
                  csv_writerow(<< <<"3">>, <<"A">>, <<"c">>, <<"a","b","c">>,
                                  <<"5">>, <<>>, T1 >>) >>]

\* no supplier and no date_added column; a blank line between the rows
ShortFile ==
    [exists |-> TRUE,
     lines |-> << csv_writerow(SubSeq(PRODUCT_FIELDS, 1, 5)),
                  csv_writerow(<< <<"7">>, <<"A">>, <<"c">>, <<"1",".","0">>, <<"5">> >>),
                  <<>>,
                  csv_writerow(<< <<"7">>, <<"B">>, <<"c">>, <<".","5">>, <<"0">> >>) >>]

InitialFiles == {[exists |-> FALSE, lines |-> <<>>], GoodFile, BadRowFile, ShortFile}

StoreIds == {<<"3">>, <<"7">>}

StoreEntities ==
    { Product(<<"3">>, <<"A">>, <<"c">>, 100, 5, <<>>, T1),
      Product(<<"7">>, <<"s","a","y"," ","\"","B","\"",","," ","C">>, <<"d">>, 205, 0,
              <<"S">>, T2) }

IO == {"ok", "error"}

InitStore ==
    /\ file \in InitialFiles
    /\ InitRepo

NextStore ==
    \/ Save(IO)
    \/ Load(IO, {T2})
    \/ Add(StoreEntities)
    \/ Update(StoreEntities)
    \/ Delete(StoreIds)
    \/ AdjustStock(StoreIds, {-5, 5})

SpecStore == InitStore /\ [][NextStore]_vars

(***************************************************************************)
(* Properties of persistence, under SpecStore.                             *)
(***************************************************************************)
\* C3: a load() that fails commits nothing: the collection holds none of the
\* rows parsed before the failing row, it is never partially populated.
C3_FailedLoadCommitsNothing ==
    (op.name = "load" /\ ~op.ok) => (products = before \/ Len(products) = 0)

\* the ids in the first column of the rows after the header
RowIds(f) ==
    {csv_readrow(f.lines[k])[1] :
        k \in {j \in 2..Len(f.lines) : Len(f.lines[j]) > 0}}

\* C4: with no backing file load() succeeds and the repository is empty
\* afterwards, whatever it held; with a file that parses, the collection is the
\* rows of the file and nothing from before the load remains.
C4_LoadReplacesCollection ==
    op.name = "load" =>
        /\ ~file.exists => (op.ok /\ count(products) = 0)
        /\ (file.exists /\ op.ok) => Ids(products) = RowIds(file)

\* C5: save() then load() on the same file gives back the collection: the same
\* ids in the same order and, for each, the same attribute values; the empty
\* repository gives back the empty collection.
C5_SaveLoadRoundTrip ==
    /\ \E r \in {load(products, save(products, file, "ok").file, is_loaded, "ok", T1)} :
           r.ok /\ r.products = products
    /\ (op.name = "load" /\ op.ok /\ file.exists /\ file.lines = written(before))
           => products = before

\* a load of what save() wrote for two products, one with a quoted name and a
\* price with two decimals
C5_Witness ==
    /\ op.name = "load"
    /\ op.ok
    /\ file.exists
    /\ file.lines = written(before)
    /\ Len(before) = 2
    /\ products = before
    /\ \E i \in 1..2 : NeedsQuote(before[i].name) /\ before[i].price = 205

HeaderText ==
    <<"p","r","o","d","u","c","t","_","i","d",",","n","a","m","e",",",
      "c","a","t","e","g","o","r","y",",","p","r","i","c","e",",",
      "q","u","a","n","t","i","t","y",",","s","u","p","p","l","i","e","r",",",
      "d","a","t","e","_","a","d","d","e","d">>

\* C7: after a successful save() the file is decided by the collection alone:
\* empty, without a header, for the empty collection; else the header and one
\* row a stored product, in insertion order.
C7_SaveRewritesFile ==
    (op.name = "save" /\ op.ok) =>
        /\ file.exists
        /\ products = before
        /\ IF Len(products) = 0 THEN Len(file.lines) = 0
           ELSE /\ Len(file.lines) = Len(products) + 1
                /\ file.lines[1] = HeaderText
                /\ \A i \in 1..Len(products) :
                       csv_readrow(file.lines[i + 1]) = to_dict(products[i])

\* a save over a file of two rows, after one of the two products was deleted
C7_Witness ==
    /\ op.name = "save"
    /\ op.ok
    /\ file_before.exists
    /\ Len(file_before.lines) = 3
    /\ Len(products) = 1
    /\ RowIds(file_before) = {<<"3">>, <<"7">>}
    /\ RowIds(file) = {<<"3">>}

(***************************************************************************)
(* SpecObs: the service with observers.  Observers are attached and        *)
(* detached between the calls; "failing" raises in its update hook, "mute" *)
(* has no update attribute, "log" and "audit" record what they are passed. *)
(***************************************************************************)
Observers == {"log", "audit", "failing", "mute"}

ObsIds == {<<"3">>}

ObsEntities ==
    ValidEntities(ObsIds) \cup {Product(<<"7">>, <<" ">>, <<"c">>, 100, 5, <<>>, T1)}

ObsUpdates == { [name |-> <<"B">>], [name |-> <<"B">>, price |-> Some(-100)] }

ObsAmounts == {-6, -5, 5}

NextObs ==
    \/ AttachObserver(Observers)
    \/ DetachObserver(Observers)
    \/ CreateProduct(ObsEntities)
    \/ CreateProductAutoId(ValidEntities({NoId}))
    \/ UpdateProduct(ObsIds, ObsUpdates)
    \/ DeleteProduct(ObsIds)
    \/ AdjustStock(ObsIds, ObsAmounts)

SpecObs == Init /\ [][NextObs]_vars

\* the service methods that notify, and the event type of each
Notifying ==
    {"create_product", "create_product_auto_id", "update_product", "delete_product",
     "adjust_stock"}

EventType(name) ==
    CASE name \in {"create_product", "create_product_auto_id"} -> "product_created"
      [] name = "update_product" -> "product_updated"
      [] name = "delete_product" -> "product_deleted"
      [] OTHER -> "stock_adjusted"

\* the listed observers that have an update hook, in list order
Hooked(obs) == SelectSeq(obs, LAMBDA o : o \notin HooklessObservers)

\* the entity a call affected, as the collection holds it after the call (as
\* it held it before, for a deletion), with the delta for an adjustment
Payload ==
    CASE op.name = "delete_product" -> Stored(before, op.id)
      [] op.name = "adjust_stock" ->
             [product |-> Stored(products, op.id), amount |-> op.amount]
      [] OTHER -> Stored(products, op.id)

\* the change a call makes is in the collection
Applied ==
    CASE op.name \in {"create_product", "create_product_auto_id"} ->
             ~exists(before, op.id) /\ exists(products, op.id)
      [] op.name = "delete_product" ->
             exists(before, op.id) /\ ~exists(products, op.id)
      [] op.name = "update_product" ->
             /\ exists(products, op.id)
             /\ Stored(products, op.id) = update_from_dict(Stored(before, op.id), op.data).p
      [] OTHER ->
             /\ exists(products, op.id)
             /\ Stored(products, op.id).quantity
                    = Stored(before, op.id).quantity + op.amount

\* C11: a successful create_product / create_product_auto_id, update_product,
\* delete_product or adjust_stock passes every observer exactly one event, of
\* the type of the call, carrying the affected entity (and the delta for an
\* adjustment) as the collection holds it once the change is applied; the
\* change is already in the collection when a hook runs; a call that fails in
\* the entity or in the repository passes no event.
C11_OneNotificationAfterChange ==
    op.name \in Notifying =>
        /\ op.ok =>
               /\ Applied
               /\ events = [i \in 1..Len(Hooked(observers)) |->
                              [observer |-> Hooked(observers)[i],
                               event_type |-> EventType(op.name),
                               data |-> Payload]]
        /\ Len(events) > 0 =>
               /\ Applied
               /\ \A i \in 1..Len(events) :
                      /\ events[i].event_type = EventType(op.name)
                      /\ events[i].data = Payload
        /\ (~op.ok /\ op.err # "observer") => events = <<>>

\* a stock adjustment to 0 passed to two observers, beside one without a hook
C11_Witness ==
    /\ op.name = "adjust_stock"
    /\ op.ok
    /\ op.amount = -5
    /\ Len(events) = 2
    /\ "mute" \in Range(observers)

\* no observer is listed twice
NoDuplicates(obs) == \A i, j \in 1..Len(obs) : obs[i] = obs[j] => i = j

\* the observers whose hook the last call invoked, in the order of the calls
Invoked == [i \in 1..Len(events) |-> events[i].observer]

\* the list up to and including its first raising observer
RECURSIVE UpToRaise(_)
UpToRaise(obs) ==
    IF Len(obs) = 0 THEN <<>>
    ELSE IF Head(obs) \in RaisingObservers THEN <<Head(obs)>>
    ELSE <<Head(obs)>> \o UpToRaise(Tail(obs))

\* a call reached its notification
Notified == op.name \in Notifying /\ op.err \in {"", "observer"}

\* attach appends an observer that is not listed and leaves the list alone
\* otherwise; detach removes the observer and keeps the order of the others;
\* no other call changes the list
ListStep ==
    /\ op'.name = "attach_observer" =>
           observers' = IF op'.id \in Range(observers) THEN observers
                        ELSE Append(observers, op'.id)
    /\ op'.name = "detach_observer" =>
           /\ op'.id \notin Range(observers')
           /\ observers' = SelectSeq(observers, LAMBDA o : o # op'.id)
    /\ op'.name \notin {"attach_observer", "detach_observer"} =>
           observers' = observers

\* C12 as stated: the list holds no observer twice and is in attach order, and
\* every notification invokes the hook of each listed observer exactly once,
\* in list order.
C12_EveryObserverInvokedOnce ==
    /\ [](NoDuplicates(observers) /\ (Notified => Invoked = Hooked(observers)))
    /\ [][ListStep]_vars

\* C12, amended: the list holds no observer twice and is in attach order; a
\* notification invokes the hooks in list order, each at most once, up to and
\* including the first hook that raises, and invokes every hook exactly once
\* when none raises; an observer that is not listed is never invoked.
C12_ObserversInvokedInOrderUntilRaise ==
    /\ [](/\ NoDuplicates(observers)
          /\ Notified =>
                 /\ Invoked = UpToRaise(Hooked(observers))
                 /\ NoDuplicates(Invoked)
                 /\ Range(Invoked) \subseteq Range(observers)
                 /\ (Range(observers) \cap RaisingObservers = {})
                        => Invoked = Hooked(observers)
          /\ ~Notified => events = <<>>)
    /\ [][ListStep]_vars

\* a notification that reached "audit" before "log", the order of the list,
\* with "failing" and "mute" not attached
C12_Witness ==
    /\ Notified
    /\ op.ok
    /\ observers = <<"audit", "log">>
    /\ Invoked = <<"audit", "log">>

\* C13: what an observer's update hook raises reaches the caller of the
\* service method as it was raised.
C13_ObserverFailurePropagatesUnchanged ==
    (op.name \in Notifying /\ op.err = "observer") =>
        op.raised = cause_exception("observer")

(***************************************************************************)
(* SpecUpd: partial updates.  Product "3" is the one updated, "7" stands   *)
(* beside it, "9" is never stored.  The dicts name one field or several,   *)
(* hold empty strings, 0 and None, an invalid value after valid ones, and  *)
(* keys that update_from_dict does not read.                               *)
(***************************************************************************)
UpdIds == {<<"3">>, <<"9">>}

UpdEntities ==
    { Product(<<"3">>, <<"A">>, <<"c">>, 100, 5, <<"S">>, T1),
      Product(<<"7">>, <<"A">>, <<"c">>, 100, 5, <<"S">>, T1) }

RichUpdates ==
    { [name |-> <<"B">>],
      [category |-> <<"d">>, supplier |-> <<"T">>],
      [price |-> Some(250), quantity |-> Some(3)],
      [name |-> <<"B">>, price |-> Some(-100)],
      [category |-> <<"d">>, quantity |-> Some(-1), supplier |-> <<"T">>],
      [name |-> <<" ">>, category |-> <<"d">>],
      [name |-> <<>>, category |-> <<>>, supplier |-> <<>>],
      [price |-> Some(0)],
      [quantity |-> Some(0)],
      [name |-> <<"B">>, price |-> NoneNumber, quantity |-> NoneNumber],
      [product_id |-> <<"9">>, date_added |-> T2, name |-> <<"B">>] }

NextUpd ==
    \/ CreateProduct(UpdEntities)
    \/ UpdateProduct(UpdIds, RichUpdates)
    \/ DeleteProduct(UpdIds)

SpecUpd == Init /\ [][NextUpd]_vars

\* the attributes update_from_dict may set, in the order in which it sets them
Settable == <<"name", "category", "price", "quantity", "supplier">>

\* the value a dict holds under a key, as the attribute would hold it
ValueOf(data, key) ==
    IF key \in {"price", "quantity"} THEN Number(data[key]) ELSE data[key]

\* Python truth of the value under a key: "", 0 and None are false
FalsyValue(data, key) ==
    IF key \in {"price", "quantity"}
    THEN IsNone(data[key]) \/ Number(data[key]) = 0
    ELSE Len(data[key]) = 0

\* the value under a key is one its setter refuses
InvalidValue(data, key) ==
    CASE key = "name" ->
             Len(data[key]) > 0 /\ (IsBlank(data[key]) \/ Len(data[key]) > MaxNameLen)
      [] key \in {"price", "quantity"} ->
             ~IsNone(data[key]) /\ Number(data[key]) < 0
      [] OTHER -> FALSE

\* C14: a successful update_product(id, data) changes only the attributes the
\* dict names: an attribute that is not a key of the dict keeps its value, the
\* id and date_added of the product stay, every other product stays, and the
\* stored ids and their order stay.
C14_UpdateProductFrame ==
    (op.name = "update_product" /\ op.ok) =>
        /\ Len(products) = Len(before)
        /\ \A i \in 1..Len(before) :
               /\ products[i].product_id = before[i].product_id
               /\ products[i].date_added = before[i].date_added
               /\ before[i].product_id # op.id => products[i] = before[i]
               /\ \A k \in 1..Len(Settable) :
                      Settable[k] \notin DOMAIN op.data =>
                          products[i][Settable[k]] = before[i][Settable[k]]

\* category and supplier set, beside another product, the dict naming neither
\* name, price nor quantity
C14_Witness ==
    /\ op.name = "update_product"
    /\ op.ok
    /\ DOMAIN op.data = {"category", "supplier"}
    /\ Len(before) = 2
    /\ Stored(before, op.id).category = <<"c">>
    /\ Stored(products, op.id).category = <<"d">>
    /\ Stored(products, op.id).supplier = <<"T">>

\* C15: when update_product fails at an invalid value, the valid values that
\* come before it in the order name, category, price, quantity, supplier are
\* on the stored entity after the call.
C15_ValidFieldsBeforeInvalidStay ==
    (op.name = "update_product" /\ exists(before, op.id)) =>
        \A k \in 1..Len(Settable) :
            (/\ Settable[k] \in DOMAIN op.data
             /\ InvalidValue(op.data, Settable[k])
             /\ \A j \in 1..(k - 1) :
                    Settable[j] \in DOMAIN op.data => ~InvalidValue(op.data, Settable[j]))
            => /\ ~op.ok
               /\ \A j \in 1..(k - 1) :
                      (Settable[j] \in DOMAIN op.data /\ ~Falsy(op.data[Settable[j]]))
                      => Stored(products, op.id)[Settable[j]]
                             = ValueOf(op.data, Settable[j])

\* a new category before a negative quantity: the call fails, the category is
\* the new one, and the supplier named after the quantity is the old one
C15_Witness ==
    /\ op.name = "update_product"
    /\ ~op.ok
    /\ exists(before, op.id)
    /\ DOMAIN op.data = {"category", "quantity", "supplier"}
    /\ Stored(before, op.id).category = <<"c">>
    /\ Stored(products, op.id).category = <<"d">>
    /\ Stored(products, op.id).supplier = <<"S">>

\* C16: update_product takes a false value (an empty string, 0) as not given:
\* the attribute keeps its value, and a dict of false values raises nothing.
C16_FalsyValuesSkipped ==
    (op.name = "update_product" /\ exists(before, op.id)) =>
        /\ \A k \in 1..Len(Settable) :
               (Settable[k] \in DOMAIN op.data /\ FalsyValue(op.data, Settable[k]))
               => Stored(products, op.id)[Settable[k]]
                      = Stored(before, op.id)[Settable[k]]
        /\ (\A k \in 1..Len(Settable) :
               Settable[k] \in DOMAIN op.data => FalsyValue(op.data, Settable[k]))
           => op.ok

(***************************************************************************)
(* SpecStats: the statistics and the low-stock queries.  The quantities    *)
(* lie on both sides of the threshold 10 and on it.                        *)
(***************************************************************************)
\* the loop of get_statistics over the categories: a dict from category to count
RECURSIVE count_categories(_, _)
count_categories(prods, categories) ==
    IF Len(prods) = 0 THEN categories
    ELSE LET c == Head(prods).category
             seen == IF c \in DOMAIN categories THEN categories ELSE categories @@ (c :> 0)
         IN  count_categories(Tail(prods), [seen EXCEPT ![c] = @ + 1])

RECURSIVE sum_quantity(_)
sum_quantity(prods) ==
    IF Len(prods) = 0 THEN 0 ELSE Head(prods).quantity + sum_quantity(Tail(prods))

RECURSIVE sum_total_value(_)
sum_total_value(prods) ==
    IF Len(prods) = 0 THEN 0
    ELSE get_total_value(Head(prods)) + sum_total_value(Tail(prods))

\* ProductService.get_statistics(): the dict it returns; the dict returned
\* for the empty collection has no 'low_stock_products' key
get_statistics(prods) ==
    IF Len(get_all(prods)) = 0
    THEN [total_products |-> 0, total_quantity |-> 0, total_value |-> 0,
          categories |-> <<>>, low_stock_count |-> 0]
    ELSE [total_products |-> Len(prods),
          total_quantity |-> sum_quantity(prods),
          total_value |-> sum_total_value(prods),
          categories |-> count_categories(prods, <<>>),
          low_stock_count |-> Len(find_low_stock(prods, DefaultThreshold)),
          low_stock_products |-> find_low_stock(prods, DefaultThreshold)]

\* the threshold a call passes: Some(t), or NoneNumber when it passes none
threshold_of(t) == IF IsNone(t) THEN DefaultThreshold ELSE Number(t)

GetStatistics ==
    /\ op' = Op("get_statistics", TRUE, "", NoId, NoProduct, NoData, 0,
                get_statistics(products))
    /\ before' = products /\ file_before' = file
    /\ events' = <<>>
    /\ UNCHANGED <<products, next_id, is_loaded, file, observers>>

\* find_low_stock(threshold) / get_low_stock_products(threshold)
FindLowStock(T) ==
    \E t \in T :
        /\ op' = Op("find_low_stock", TRUE, "", NoId, NoProduct, [threshold |-> t], 0,
                    find_low_stock(products, threshold_of(t)))
        /\ before' = products /\ file_before' = file
        /\ events' = <<>>
        /\ UNCHANGED <<products, next_id, is_loaded, file, observers>>

\* is_low_stock(threshold) on the stored product of an id
IsLowStock(I, T) ==
    \E i \in I, t \in T :
        /\ exists(products, i)
        /\ op' = Op("is_low_stock", TRUE, "", i, get_by_id(products, i),
                    [threshold |-> t], 0,
                    is_low_stock(get_by_id(products, i), threshold_of(t)))
        /\ before' = products /\ file_before' = file
        /\ events' = <<>>
        /\ UNCHANGED <<products, next_id, is_loaded, file, observers>>

StatsIds == {<<"3">>, <<"7">>, <<"a","b","c">>}

StatsEntities ==
    { Product(<<"3">>, <<"P">>, <<"A">>, 100, 3, <<>>, T1),
      Product(<<"3">>, <<"P">>, <<"A">>, 100, 9, <<>>, T1),
      Product(<<"7">>, <<"Q">>, <<"A">>, 250, 20, <<>>, T1),
      Product(<<"7">>, <<"Q">>, <<"B">>, 250, 10, <<>>, T1),
      Product(<<"a","b","c">>, <<"R">>, <<"B">>, 5, 1, <<>>, T1) }

Thresholds == {NoneNumber, Some(10), Some(9), Some(0)}

NextStats ==
    \/ Add(StatsEntities)
    \/ Delete(StatsIds)
    \/ GetStatistics
    \/ FindLowStock(Thresholds)
    \/ IsLowStock(StatsIds, Thresholds)

SpecStats == Init /\ [][NextStats]_vars

\* the positions of a collection that hold a product of category c, and those
\* that hold a product with fewer than 10 items
InCategory(prods, c) == {i \in 1..Len(prods) : prods[i].category = c}
Below10(prods) == {i \in 1..Len(prods) : prods[i].quantity < 10}

RECURSIVE SumOver(_, _)
SumOver(f, n) == IF n = 0 THEN 0 ELSE f[n] + SumOver(f, n - 1)

\* the results C17 names, for a non-empty or an empty collection
StatisticsAreTotals(st, prods) ==
    /\ st.total_products = Len(prods)
    /\ st.total_quantity = SumOver([i \in 1..Len(prods) |-> prods[i].quantity], Len(prods))
    /\ st.total_value =
           SumOver([i \in 1..Len(prods) |-> prods[i].price * prods[i].quantity], Len(prods))
    /\ DOMAIN st.categories = {prods[i].category : i \in 1..Len(prods)}
    /\ \A c \in DOMAIN st.categories :
           st.categories[c] = Cardinality(InCategory(prods, c))
    /\ st.low_stock_count = Cardinality(Below10(prods))

\* C17: get_statistics() never fails and returns the number of products, the
\* sum of the quantities, the sum of price x quantity, the count per category,
\* the number of products with quantity < 10 and the list of those products;
\* for the empty collection each of them is present, and zero or empty; for
\* categories A, A, B with quantities 3, 20, 1 it returns 3, 24, {A: 2, B: 1}
\* and 2 low-stock products.
C17_StatisticsOfCollection ==
    op.name = "get_statistics" =>
        /\ op.ok
        /\ StatisticsAreTotals(op.ret, products)
        /\ "low_stock_products" \in DOMAIN op.ret
        /\ op.ret.low_stock_products = SelectSeq(products, LAMBDA p : p.quantity < 10)
        /\ ([i \in 1..Len(products) |-> products[i].category] = <<<<"A">>, <<"A">>, <<"B">>>>
            /\ [i \in 1..Len(products) |-> products[i].quantity] = <<3, 20, 1>>)
           => /\ op.ret.total_products = 3
              /\ op.ret.total_quantity = 24
              /\ op.ret.categories = (<<"A">> :> 2) @@ (<<"B">> :> 1)
              /\ op.ret.low_stock_count = 2

\* the part of C17 that is about a collection that holds a product
StatisticsOfNonEmpty ==
    (op.name = "get_statistics" /\ Len(products) > 0) => C17_StatisticsOfCollection

\* the statistics of categories A, A, B with quantities 3, 20, 1
StatisticsExample ==
    /\ op.name = "get_statistics"
    /\ op.ret.total_products = 3
    /\ op.ret.total_quantity = 24
    /\ op.ret.low_stock_count = 2

\* C18: is_low_stock(t) is quantity < t, and find_low_stock(t) returns the
\* stored products for which is_low_stock(t) holds, in insertion order; a call
\* that passes no threshold is a call with t = 10.
C18_LowStockIsStrict ==
    /\ op.name = "is_low_stock" =>
           /\ op.ret = (op.ent.quantity < threshold_of(op.data.threshold))
           /\ (op.ent.quantity = 9 /\ op.data.threshold = Some(10)) => op.ret
           /\ (op.ent.quantity = 10 /\ op.data.threshold = Some(10)) => ~op.ret
    /\ op.name = "find_low_stock" =>
           /\ op.ret = SelectSeq(products,
                                 LAMBDA p : is_low_stock(p, threshold_of(op.data.threshold)))
           /\ IsNone(op.data.threshold) =>
                  op.ret = SelectSeq(products, LAMBDA p : is_low_stock(p, 10))

\* find_low_stock() without a threshold over quantities 10, 1 and 9: the
\* products of quantity 1 and 9, in the order in which they were added
C18_Witness ==
    /\ op.name = "find_low_stock"
    /\ IsNone(op.data.threshold)
    /\ [i \in 1..Len(products) |-> products[i].quantity] = <<10, 1, 9>>
    /\ [i \in 1..Len(op.ret) |-> op.ret[i].quantity] = <<1, 9>>

(***************************************************************************)
(* SpecAll: every operation that changes the collection, load included,    *)
(* over a file whose rows parse but hold values that validate() rejects.   *)
(***************************************************************************)
\* a negative price in the first row, an empty name and a negative quantity
\* in the second
InvalidRowsFile ==
    [exists |-> TRUE,
     lines |-> << HeaderLine,
                  csv_writerow(<< <<"7">>, <<"A">>, <<"c">>, <<"-","1",".","0">>,
                                  <<"5">>, <<>>, T1 >>),
                  csv_writerow(<< <<"3">>, <<>>, <<"c">>, <<"1",".","0">>,
                                  <<"-","2">>, <<>>, T1 >>) >>]

AllIds == {<<"3">>, <<"7">>}

AllEntities ==
    ValidEntities(AllIds) \cup {Product(<<"7">>, <<"A">>, <<"c">>, -100, 5, <<>>, T1)}

AllUpdates == { [name |-> <<"B">>], [name |-> <<"B">>, price |-> Some(-100)] }

AllAmounts == {-6, 5}

InitAll ==
    /\ file \in {[exists |-> FALSE, lines |-> <<>>], InvalidRowsFile}
    /\ InitRepo

NextAll ==
    \/ Load({"ok"}, {T2})
    \/ Add(AllEntities)
    \/ Update(AllEntities)
    \/ Delete(AllIds)
    \/ Clear
    \/ CreateProduct(AllEntities)
    \/ UpdateProduct(AllIds, AllUpdates)
    \/ DeleteProduct(AllIds)
    \/ AdjustStock(AllIds, AllAmounts)

SpecAll == InitAll /\ [][NextAll]_vars

\* the invariants of the entity, on every product of a collection
EntityInvariants(prods) ==
    /\ \A i \in 1..Len(prods) :
           /\ prods[i].price >= 0
           /\ prods[i].quantity >= 0
           /\ Len(prods[i].product_id) > 0
           /\ Len(prods[i].product_id) <= MaxIdLen
           /\ Len(prods[i].name) > 0
           /\ Len(prods[i].name) <= MaxNameLen
    /\ \A i, j \in 1..Len(prods) : prods[i].product_id = prods[j].product_id => i = j

\* C19: in every state that load, add, update, delete, clear, create_product,
\* update_product, delete_product and adjust_stock can reach, every stored
\* product has price >= 0, quantity >= 0, a non-empty id of at most 20
\* characters and a non-empty name of at most 50, and no two share an id.
C19_StoredProductsAreValid == EntityInvariants(products)

\* the same, for the states reached without load
ValidWithoutLoad == EntityInvariants(products)

(***************************************************************************)
(* SpecSave: saves that fail, before the file is opened or while it is     *)
(* written, between changes of the collection.                             *)
(***************************************************************************)
SaveIO == {"ok", "error", "truncated", "partial"}

SaveIds == {<<"3">>, <<"7">>}

SaveEntities ==
    ValidEntities(SaveIds) \cup {Product(<<"3">>, <<"B">>, <<"d">>, 250, 0, <<"S">>, T2)}

NextSave ==
    \/ Save(SaveIO)
    \/ Add(SaveEntities)
    \/ Update(SaveEntities)
    \/ Delete(SaveIds)

SpecSave == Init /\ [][NextSave]_vars

\* a save leaves what the repository holds in memory
SaveStep ==
    op'.name = "save" =>
        /\ products' = products
        /\ next_id' = next_id
        /\ is_loaded' = is_loaded

\* C20: save() leaves the in-memory collection as it is, whether it succeeds
\* or fails; after a failed save add, update and delete give what they give
\* on the collection as it was before the save; a save that succeeds, also
\* after failed ones, writes the whole of the collection as it then is.
C20_SaveLeavesCollection ==
    /\ [](op.name = "save" =>
              /\ products = before
              /\ \A p \in SaveEntities :
                     /\ add(products, p) = add(before, p)
                     /\ update(products, p) = update(before, p)
                     /\ delete(products, p.product_id) = delete(before, p.product_id)
              /\ op.ok => file = [exists |-> TRUE, lines |-> written(products)])
    /\ [][SaveStep]_vars

\* a save that succeeds over the file a failed save left: the header alone,
\* all that reached the file of a collection of one product; the collection
\* holds two products by now
C20_Witness ==
    /\ op.name = "save"
    /\ op.ok
    /\ file_before = [exists |-> TRUE, lines |-> <<HeaderLine>>]
    /\ Len(products) = 2
    /\ Len(file.lines) = 3

(***************************************************************************)
(* SpecAuto: ids given by the caller beside ids derived by the repository. *)
(* "02" and "+1" are numbers to int() and differ from every str(n).        *)
(***************************************************************************)
AutoPool == {<<"3">>, <<"0","2">>, <<"+","1">>, <<"a","b","c">>}

\* the products create_product_auto_id is asked for: valid ones, and one
\* whose name is blank
AutoEntities ==
    ValidEntities({NoId}) \cup {Product(NoId, <<" ">>, <<"c">>, 100, 5, <<>>, T1)}

NextAuto ==
    \/ GetNextId
    \/ Add(ValidEntities(AutoPool))
    \/ Delete(AutoPool \cup AutoIds)
    \/ CreateProductAutoId(AutoEntities)

SpecAuto == Init /\ [][NextAuto]_vars

\* C21: the id get_next_id() returns is the id of no stored product, so
\* create_product_auto_id never fails with "already exists", and when it
\* succeeds the new product is stored under the id get_next_id() returned for
\* the collection before the call.
C21_NextIdIsFree ==
    /\ ~exists(products, IntStr(next_id_of(products)))
    /\ op.name = "get_next_id" => ~exists(before, op.ret)
    /\ op.name = "create_product_auto_id" =>
           /\ op.err # "already exists"
           /\ is_valid(op.ent) => op.ok
           /\ op.ok =>
                  /\ op.id = IntStr(MaxOf(NumericIds(before) \cup {0}) + 1)
                  /\ ~exists(before, op.id)
                  /\ exists(products, op.id)
                  /\ Stored(products, op.id) = op.ent
                  /\ Len(products) = Len(before) + 1

\* a product created under "3" beside the stored ids "02" and "+1", which
\* int() reads as 2 and 1
C21_Witness ==
    /\ op.name = "create_product_auto_id"
    /\ op.ok
    /\ op.id = <<"3">>
    /\ Ids(before) = {<<"0","2">>, <<"+","1">>}

(***************************************************************************)
(* Failures of the service methods, under SpecObs.                         *)
(***************************************************************************)
\* C22: whenever create_product, create_product_auto_id, update_product,
\* delete_product or adjust_stock raises to its caller, the in-memory
\* collection is the one from before the call, also when what raised is an
\* observer's update hook, which runs after the repository was changed.
C22_FailureRestoresCollection ==
    (op.name \in Notifying /\ ~op.ok) => products = before

\* with every stored product valid, as under SpecObs, a service method that
\* fails otherwise than in a setter after another or in a hook leaves the
\* collection as it was
FailureBeforeAnyChange ==
    (op.name \in Notifying /\ ~op.ok /\ op.err \notin {"observer", "setter"})
        => products = before
====
